---------------------------- MODULE Spec2Model ----------------------------
(***************************************************************************)
(* Model of seo_blog_generator.py: the response parsers of                 *)
(* SEOBlogGenerator (extract_titles_only, extract_outline_structure,       *)
(* extract_title_and_meta), input validation, and the two button handlers  *)
(* of main() (title generation and the outline -> sections -> assembly     *)
(* article run) together with the session state they read and write.       *)
(*                                                                         *)
(* Text is a sequence of one-character tokens.  A fixed literal of the     *)
(* program that the parsers only ever compare as a whole is one token:     *)
(*   "M"  the bold intro label        (the literal of lines 325 and 336)   *)
(*   "R"  the bold recommended label  (the literal of line 154)            *)
(*   "B"  the bold body label         (the literal of line 556)            *)
(*   "S"  the summary word            (the word after "## " in line 308)   *)
(* Python's None is the one-token sequence None, which is no text.         *)
(***************************************************************************)
EXTENDS Integers, Sequences, FiniteSets, TLC

NL == "\n"
SP == " "
None == <<"<None>">>

\* Python truthiness of an Optional[str]
Truthy(r) == r # None /\ r # <<>>

SetMax(S) == CHOOSE m \in S : \A x \in S : x <= m
SetMin(S) == CHOOSE m \in S : \A x \in S : m <= x

\* the characters str.strip() removes and the regex class \s matches
IsSpace(c) == c \in {SP, NL}

RECURSIVE LStrip(_)
LStrip(s) == IF s # <<>> /\ IsSpace(Head(s)) THEN LStrip(Tail(s)) ELSE s

RECURSIVE RStrip(_)
RStrip(s) ==
  IF s # <<>> /\ IsSpace(s[Len(s)]) THEN RStrip(SubSeq(s, 1, Len(s) - 1)) ELSE s

\* str.strip()
Strip(s) == RStrip(LStrip(s))

\* str.startswith(p)
StartsWith(s, p) == Len(s) >= Len(p) /\ SubSeq(s, 1, Len(p)) = p

\* str.replace(p, ''): every non-overlapping occurrence, left to right
RECURSIVE Remove(_, _)
Remove(s, p) ==
  IF s = <<>> THEN <<>>
  ELSE IF StartsWith(s, p) THEN Remove(SubSeq(s, Len(p) + 1, Len(s)), p)
  ELSE <<Head(s)>> \o Remove(Tail(s), p)

\* str.split('\n')
RECURSIVE Split(_)
Split(s) ==
  LET nls == {k \in 1..Len(s) : s[k] = NL}
  IN IF nls = {} THEN <<s>>
     ELSE LET k == SetMin(nls)
          IN <<SubSeq(s, 1, k - 1)>> \o Split(SubSeq(s, k + 1, Len(s)))

\* '\n'.join(lines)
RECURSIVE Join(_)
Join(lines) ==
  IF lines = <<>> THEN <<>>
  ELSE IF Len(lines) = 1 THEN lines[1]
  ELSE lines[1] \o <<NL>> \o Join(Tail(lines))

(***************************************************************************)
(* re.search(prefix + r'\s*(.+?)(?:\n|$)', text) for a literal prefix.     *)
(* At a start i where the prefix matches, \s* is greedy and backtracks:    *)
(* it tries the longest whitespace run first and then shorter ones; (.+?)  *)
(* needs one character that is not a newline and then extends lazily to    *)
(* the next newline or the end of the text.                                *)
(***************************************************************************)
\* the length of the whitespace run of text that starts at index j
RECURSIVE WsRun(_, _)
WsRun(text, j) ==
  IF j <= Len(text) /\ IsSpace(text[j]) THEN 1 + WsRun(text, j + 1) ELSE 0

\* the index of the last character of the line that text[s] lies on
RECURSIVE LineEnd(_, _)
LineEnd(text, s) ==
  IF s < Len(text) /\ text[s + 1] # NL THEN LineEnd(text, s + 1) ELSE s

PrefixAt(text, i, prefix) ==
  /\ i + Len(prefix) - 1 <= Len(text)
  /\ SubSeq(text, i, i + Len(prefix) - 1) = prefix

\* where group(1) starts for a match that starts at i, 0 when there is none
GroupStart(text, i, prefix) ==
  IF ~PrefixAt(text, i, prefix) THEN 0
  ELSE LET j == i + Len(prefix)
           ks == {k \in 0..WsRun(text, j) :
                    j + k <= Len(text) /\ text[j + k] # NL}
       IN IF ks = {} THEN 0 ELSE j + SetMax(ks)

\* match.group(1) of the leftmost match, None when re.search finds none
ReSearch(text, prefix) ==
  LET starts == {i \in 1..Len(text) : GroupStart(text, i, prefix) # 0}
  IN IF starts = {} THEN None
     ELSE LET s == GroupStart(text, SetMin(starts), prefix)
          IN SubSeq(text, s, LineEnd(text, s))


(***************************************************************************)
(* SEOBlogGenerator.validate_inputs                                        *)
(***************************************************************************)
\* the minimum length of the trimmed keyword
MinKeywordLen == 2

\* the condition of lines 80 and 425
KeywordTooShort(keyword) ==
  keyword = <<>> \/ Len(Strip(keyword)) < MinKeywordLen

\* validate_inputs without the check of the genre
validate_inputs_NoGenre(keyword, genre, target_audience) ==
  LET errors ==
        (IF KeywordTooShort(keyword) THEN <<"keyword">> ELSE <<>>)
        \o (IF target_audience = "" THEN <<"audience">> ELSE <<>>)
  IN [is_valid |-> Len(errors) = 0, errors |-> errors]

\* the error list of validate_inputs, in the order the code appends
validate_inputs(keyword, genre, target_audience) ==
  LET errors ==
        (IF KeywordTooShort(keyword) THEN <<"keyword">> ELSE <<>>)
        \o (IF genre = "" THEN <<"genre">> ELSE <<>>)
        \o (IF target_audience = "" THEN <<"audience">> ELSE <<>>)
  IN [is_valid |-> Len(errors) = 0, errors |-> errors]

(***************************************************************************)
(* SEOBlogGenerator.extract_titles_only                                    *)
(***************************************************************************)
\* range(1, 6) searches the numerals 1 .. NumTitleSlots
NumTitleSlots == 5
Digits == <<"1", "2", "3", "4", "5", "6", "7", "8", "9">>

\* TitleMatch as a parser that walks the list in order would have it:
\* numeral i is looked for only when numeral i - 1 was found
TitleMatch_InSequence(response, i) ==
  IF i > 1 /\ ReSearch(response, <<Digits[i - 1], ".">>) = None THEN None
  ELSE ReSearch(response, <<Digits[i], ".">>)

\* one iteration of the loop of lines 148-152: the pattern of numeral i
TitleMatch(response, i) == ReSearch(response, <<Digits[i], ".">>)

\* the candidates the loop appends for the numerals i .. NumTitleSlots
RECURSIVE TitleCandidatesFrom(_, _)
TitleCandidatesFrom(response, i) ==
  IF i > NumTitleSlots THEN <<>>
  ELSE LET m == TitleMatch(response, i)
       IN (IF m # None THEN <<Strip(m)>> ELSE <<>>)
          \o TitleCandidatesFrom(response, i + 1)

extract_titles_only(response) ==
  LET rec == ReSearch(response, <<"R">>)
  IN [title_candidates |-> TitleCandidatesFrom(response, 1),
      recommended_title |-> IF rec # None THEN Strip(rec) ELSE <<>>]

(***************************************************************************)
(* SEOBlogGenerator.extract_outline_structure                              *)
(***************************************************************************)
H2Prefix == <<"#", "#", SP>>
H3Prefix == <<"#", "#", "#", SP>>
SummaryPrefix == <<"#", "#", SP, "S">>

\* OpensSection without the test for the summary heading
OpensSection_AnyH2(line) == StartsWith(line, H2Prefix)

\* the condition of line 308 on a stripped line
OpensSection(line) ==
  StartsWith(line, H2Prefix) /\ ~StartsWith(line, SummaryPrefix)

\* the condition of line 317; open says that current_section is not None
\* (a section is a dict with two keys, which is always truthy)
AddsSubsection(line, open) == StartsWith(line, H3Prefix) /\ open

NoSection == [title |-> <<>>, subsections |-> <<>>]

\* the loop body of lines 305-318 on the loop state [sections, open, current]
OutlineStep(st, rawline) ==
  LET line == Strip(rawline)
  IN IF OpensSection(line)
     THEN [sections |-> IF st.open
                        THEN Append(st.sections, st.current)
                        ELSE st.sections,
           open |-> TRUE,
           current |-> [title |-> Remove(line, H2Prefix),
                        subsections |-> <<>>]]
     ELSE IF AddsSubsection(line, st.open)
     THEN [st EXCEPT !.current.subsections =
                        Append(@, Remove(line, H3Prefix))]
     ELSE st

\* the loop of lines 304-318 over lines[k .. ]
RECURSIVE OutlineLoop(_, _, _)
OutlineLoop(st, lines, k) ==
  IF k > Len(lines) THEN st
  ELSE OutlineLoop(OutlineStep(st, lines[k]), lines, k + 1)

extract_outline_structure(outline) ==
  LET st == OutlineLoop([sections |-> <<>>, open |-> FALSE,
                         current |-> NoSection],
                        Split(outline), 1)
      sections == IF st.open
                  THEN Append(st.sections, st.current)
                  ELSE st.sections
      intro_match == ReSearch(outline, <<"M">>)
  IN [intro |-> IF intro_match # None THEN Strip(intro_match) ELSE <<>>,
      sections |-> sections]

(***************************************************************************)
(* SEOBlogGenerator.extract_title_and_meta                                 *)
(***************************************************************************)
\* the sentinel of line 337
IntroNotFound == <<"<intro not found>">>

extract_title_and_meta(article) ==
  LET intro_match == ReSearch(article, <<"M">>)
  IN [intro |-> IF intro_match # None THEN Strip(intro_match)
                ELSE IntroNotFound]

(***************************************************************************)
(* State.  The first five variables are st.session_state (lines 347-356    *)
(* and the radio widget of line 456); the others are the locals of the     *)
(* running handler and what the handler has shown to the user.             *)
(***************************************************************************)
VARIABLES
  generated_article,    \* st.session_state.generated_article
  generation_completed, \* st.session_state.generation_completed
  generated_titles,     \* st.session_state.generated_titles
  selected_title,       \* st.session_state.selected_title
  title_selection,      \* the index held by the radio "title_selection"
  handler,              \* what the latest pass of the script handled
  pc,                   \* the stage of the article run (spec 4.4)
  req,                  \* the field values the running handler read
  errors,               \* the st.error messages of the latest handler
  calls,                \* the API calls the latest handler has issued
  inflight,             \* the call the handler is blocked on, or "none"
  outline_kind,         \* what generate_outline gave the run (line 515):
                        \* "none" yet, "error" (None), "empty" or "text"
  structure,            \* structure (line 528)
  i,                    \* how many sections the loop of line 535 has done
  sections_content,     \* sections_content (line 532)
  results,              \* what each generate_section call returned
  progress,             \* the values given to progress_bar.progress
  final_article,        \* final_article (lines 555-571)
  section_count,        \* the count shown by st.success (line 578)
  pre,                  \* the session article and flag when the run began
  runs,                 \* article-button clicks so far
  title_gens,           \* title-button clicks so far
  text,                 \* the input of a parser run on its own
  parsed                \* the output of a parser run on its own

session == <<generated_article, generation_completed, generated_titles,
             selected_title, title_selection>>
locals == <<structure, i, sections_content, results, progress, final_article,
            section_count>>
run == <<handler, pc, req, errors, calls, inflight, outline_kind, locals,
         pre>>
counters == <<runs, title_gens>>
parser == <<text, parsed>>
vars == <<session, run, counters, parser>>

(***************************************************************************)
(* Bounds and the inputs drawn within them                                 *)
(***************************************************************************)
MaxRuns == 2
MaxTitleGens == 2
MaxRunLines == 3

\* keyword field values: empty, blank, one character, one character padded,
\* exactly two characters, two words
Keywords == {<<>>, <<SP, SP>>, <<"k">>, <<SP, "k", SP>>, <<"k", "w">>}
Genres == {"", "business"}
Audiences == {"", "beginner"}

\* every sequence of 1 .. n elements of S
SeqsUpTo(S, n) == UNION {[1..m -> S] : m \in 1..n}

\* outline responses of an article run: None (the call raised), the empty
\* text, and every text of 1 .. MaxRunLines of these lines: a section
\* heading, the summary heading, the intro line
RunLines == {<<"#", "#", SP, "a">>, <<"#", "#", SP, "S">>, <<"M", SP, "i">>}
RunOutlines ==
  {None, <<>>} \cup {Join(ls) : ls \in SeqsUpTo(RunLines, MaxRunLines)}

\* the responses to the call for section k: None (the call raised), the
\* empty text, or a body, which names k so that the bodies of different
\* sections can be told apart in the article
SectionResponses(k) == {None, <<>>, <<"p", Digits[k]>>}

\* title responses: None, the empty text, two candidates and a
\* recommendation, one candidate, no candidate at all
TitleResponses ==
  {None, <<>>,
   Join(<< <<"1", ".", SP, "t">>, <<"2", ".", SP, "u">>, <<"R", SP, "t">> >>),
   Join(<< <<"1", ".", SP, "v">> >>),
   <<"z">>}

(***************************************************************************)
(* main(): session state and the title block                               *)
(***************************************************************************)
\* st.session_state.generated_titles = {} (line 352)
NoTitles ==
  [present |-> FALSE, title_candidates |-> <<>>, recommended_title |-> <<>>]

NoRequest ==
  [keyword |-> <<>>, genre |-> "", target_audience |-> "", api_key |-> FALSE]

NoStructure == [intro |-> <<>>, sections |-> <<>>]

\* lines 438-460: the title block, run on every pass of the script; idx is
\* what st.radio returns
ShownTitle(titles, idx, selected) ==
  IF titles.present /\ titles.title_candidates # <<>>
  THEN titles.title_candidates[idx + 1]
  ELSE selected

\* what st.radio can return for the options of titles: the index it holds
\* when that is one of the options, otherwise its default 0
RadioValues(titles, held) ==
  IF titles.present /\ titles.title_candidates # <<>>
  THEN {0} \cup ({held} \cap (0..(Len(titles.title_candidates) - 1)))
  ELSE {held}

NoSnapshot == [article |-> <<>>, completed |-> FALSE]

\* the locals of the article handler before it has run
FreshLocals ==
  /\ structure = NoStructure
  /\ i = 0
  /\ sections_content = <<>>
  /\ results = <<>>
  /\ progress = <<>>
  /\ final_article = <<>>
  /\ section_count = 0

\* every pass of the script starts the article handler's locals afresh
ResetLocals ==
  /\ outline_kind' = "none"
  /\ structure' = NoStructure
  /\ i' = 0
  /\ sections_content' = <<>>
  /\ results' = <<>>
  /\ progress' = <<>>
  /\ final_article' = <<>>
  /\ section_count' = 0

\* the state after lines 347-356, before any button is pressed
InitHandlers ==
  /\ generated_article = <<>>
  /\ generation_completed = FALSE
  /\ generated_titles = NoTitles
  /\ selected_title = <<>>
  /\ title_selection = 0
  /\ handler = "none"
  /\ pc = "Idle"
  /\ req = NoRequest
  /\ errors = <<>>
  /\ calls = <<>>
  /\ inflight = "none"
  /\ outline_kind = "none"
  /\ FreshLocals
  /\ pre = NoSnapshot
  /\ runs = 0
  /\ title_gens = 0

NotParsed == [fn |-> "none"]

Init == InitHandlers /\ text = <<>> /\ parsed = NotParsed

\* no handler is running: the script is waiting for the user
AtRest == pc \in {"Idle", "Done", "Failed"} /\ inflight = "none"

\* the record of one API call: its stage, the request that triggered it
\* and, for a section call, the section's place and title
Call(stage, r, index, title) ==
  [stage |-> stage, keyword |-> r.keyword, genre |-> r.genre,
   target_audience |-> r.target_audience, index |-> index, title |-> title]

\* TitleRequestAccepted without the check of the keyword
TitleRequestAccepted_AnyKeyword(r) == r.api_key

\* lines 423-427: whether the title handler goes on to generate_titles
TitleRequestAccepted(r) == r.api_key /\ ~KeywordTooShort(r.keyword)

\* what generate_titles can return for an accepted request: None when no
\* client was built (lines 70-74 and 96-97) or messages.create raised
\* (lines 141-143), otherwise the text of the response
TitleOutcomes ==
  {[called |-> FALSE, response |-> None]}
  \cup {[called |-> TRUE, response |-> t] : t \in TitleResponses}

\* lines 422-435 and the title block after them: one click on the title
\* button with the field values r
ClickTitles(r) ==
  /\ AtRest
  /\ title_gens < MaxTitleGens
  /\ title_gens' = title_gens + 1
  /\ handler' = "titles"
  /\ pc' = "Idle"
  /\ req' = NoRequest
  /\ ResetLocals
  /\ pre' = NoSnapshot
  /\ IF ~TitleRequestAccepted(r)
     THEN /\ errors' = IF ~r.api_key THEN <<"api_key">> ELSE <<"keyword">>
          /\ calls' = <<>>
          /\ selected_title' =
               ShownTitle(generated_titles, title_selection, selected_title)
          /\ UNCHANGED <<generated_titles, title_selection>>
     ELSE \E o \in TitleOutcomes :
            LET stored == IF Truthy(o.response)
                          THEN [present |-> TRUE]
                               @@ extract_titles_only(o.response)
                          ELSE generated_titles
            IN /\ calls' = IF o.called
                           THEN <<Call("title", r, 0, <<>>)>> ELSE <<>>
               /\ errors' = IF Truthy(o.response)
                            THEN <<>> ELSE <<"titles_failed">>
               /\ generated_titles' = stored
               /\ \E idx \in RadioValues(stored, title_selection) :
                    /\ title_selection' = idx
                    /\ selected_title' =
                         ShownTitle(stored, idx, selected_title)
  /\ UNCHANGED <<generated_article, generation_completed, inflight, runs,
                 parser>>

\* the user picks another radio option: the script runs again with no
\* button pressed and line 460 stores the picked candidate
SelectTitle(idx) ==
  /\ AtRest
  /\ generated_titles.present
  /\ idx \in 0..(Len(generated_titles.title_candidates) - 1)
  /\ idx # title_selection
  /\ title_selection' = idx
  /\ selected_title' = ShownTitle(generated_titles, idx, selected_title)
  /\ handler' = "select"
  /\ pc' = "Idle"
  /\ errors' = <<>>
  /\ calls' = <<>>
  /\ ResetLocals
  /\ pre' = NoSnapshot
  /\ UNCHANGED <<generated_article, generation_completed, generated_titles,
                 req, inflight, counters, parser>>

(***************************************************************************)
(* main(): the article run, lines 495-588                                  *)
(***************************************************************************)
\* OutlineFailed as `if outline is None`: the empty text passes
OutlineFailed_NoneOnly(outline) == outline = None

\* line 520: `if not outline`
OutlineFailed(outline) == ~Truthy(outline)

\* KeepsBody as `if section_content is not None`: the empty text is kept
KeepsBody_UnlessNone(section_content) == section_content # None

\* line 547: `if section_content`
KeepsBody(section_content) == Truthy(section_content)

\* SectionProgress counting the sections already done, not the one begun
SectionProgress_FromZero(k, total_sections) ==
  (35 * total_sections + 50 * k) \div total_sections

\* line 536-537: int(35 + 50 * (k + 1) / total_sections) for loop index k
SectionProgress(k, total_sections) ==
  (35 * total_sections + 50 * (k + 1)) \div total_sections

\* NextSection stepping over a section
NextSection_SkipsOne(done) == done + 2

\* line 535: enumerate() moves on to the section after the one just done
NextSection(done) == done + 1

\* whether the loop of line 535 has another section to generate after done
LoopHasNext(done, total_sections) == done < total_sections

\* lines 565-566 for sections_content[k .. ]
RECURSIVE BodiesFrom(_, _)
BodiesFrom(contents, k) ==
  IF k > Len(contents) THEN <<>>
  ELSE contents[k] \o <<NL, NL>> \o BodiesFrom(contents, k + 1)

\* Article with the title heading put first
Article_TitleFirst(intro, title, contents, keyword, target_audience) ==
  (IF title # <<>> THEN <<"#", SP>> \o title \o <<NL, NL>> ELSE <<>>)
  \o <<"M", SP>> \o intro \o <<NL, NL>>
  \o <<"B", NL, NL>>
  \o intro \o <<NL, NL>>
  \o BodiesFrom(contents, 1)
  \o <<"#", "#", SP, "S", NL, NL>>
  \o <<"C1">> \o keyword \o <<"C2">>
  \o <<"C3">> \o <<target_audience>> \o <<"C4">>

\* lines 555-571: the text of final_article.  "C1" .. "C4" are the four
\* literals of the closing sentences of lines 570-571.
Article(intro, title, contents, keyword, target_audience) ==
  <<"M", SP>> \o intro \o <<NL, NL>>
  \o <<"B", NL, NL>>
  \o (IF title # <<>> THEN <<"#", SP>> \o title \o <<NL, NL>> ELSE <<>>)
  \o intro \o <<NL, NL>>
  \o BodiesFrom(contents, 1)
  \o <<"#", "#", SP, "S", NL, NL>>
  \o <<"C1">> \o keyword \o <<"C2">>
  \o <<"C3">> \o <<target_audience>> \o <<"C4">>

\* lines 495-518: one click on the article button with the field values
\* r, up to the outline call.  st.progress(0) makes the bar (line 507) and
\* line 513 sets it to 25.  The title block (lines 438-460) runs first,
\* as on every pass.  generate_outline returns None without a call when no
\* client was built (lines 70-74 and 166-167).
ClickGenerate(r) ==
  /\ AtRest
  /\ runs < MaxRuns
  /\ runs' = runs + 1
  /\ handler' = "article"
  /\ req' = r
  /\ selected_title' =
       ShownTitle(generated_titles, title_selection, selected_title)
  /\ structure' = NoStructure
  /\ i' = 0
  /\ sections_content' = <<>>
  /\ results' = <<>>
  /\ final_article' = <<>>
  /\ section_count' = 0
  /\ pre' = [article |-> generated_article,
             completed |-> generation_completed]
  /\ LET validation ==
           validate_inputs(r.keyword, r.genre, r.target_audience)
     IN IF ~r.api_key
        THEN /\ errors' = <<"api_key">>
             /\ calls' = <<>>
             /\ progress' = <<>>
             /\ pc' = "Idle"
             /\ inflight' = "none"
             /\ outline_kind' = "none"
        ELSE IF ~validation.is_valid
        THEN /\ errors' = validation.errors
             /\ calls' = <<>>
             /\ progress' = <<>>
             /\ pc' = "Idle"
             /\ inflight' = "none"
             /\ outline_kind' = "none"
        ELSE /\ progress' = <<0, 25>>
             /\ \/ /\ errors' = <<>>
                   /\ calls' = <<Call("outline", r, 0, <<>>)>>
                   /\ pc' = "OutlineRequested"
                   /\ inflight' = "outline"
                   /\ outline_kind' = "none"
                \/ /\ errors' = <<"outline_failed">>
                   /\ calls' = <<>>
                   /\ pc' = "Failed"
                   /\ inflight' = "none"
                   /\ outline_kind' = "error"
  /\ UNCHANGED <<generated_article, generation_completed, generated_titles,
                 title_selection, title_gens, parser>>

\* lines 515-528: the outline call returns; response is None when
\* messages.create raised (lines 235-237)
OutlineReturn(response) ==
  /\ pc = "OutlineRequested"
  /\ inflight = "outline"
  /\ inflight' = "none"
  /\ outline_kind' = IF response = None THEN "error"
                     ELSE IF response = <<>> THEN "empty" ELSE "text"
  /\ IF OutlineFailed(response)
     THEN /\ errors' = Append(errors, "outline_failed")
          /\ pc' = "Failed"
          /\ UNCHANGED <<progress, structure>>
     ELSE /\ progress' = Append(progress, 35)
          /\ structure' = extract_outline_structure(response)
          /\ pc' = "OutlineParsed"
          /\ UNCHANGED errors
  /\ UNCHANGED <<session, handler, req, calls, i, sections_content, results,
                 final_article, section_count, pre, counters, parser>>

\* lines 535-545: the loop takes the next section, reports its progress and
\* calls generate_section
IssueSection ==
  /\ pc \in {"OutlineParsed", "SectionsInProgress"}
  /\ inflight = "none"
  /\ LoopHasNext(i, Len(structure.sections))
  /\ progress' =
       Append(progress, SectionProgress(i, Len(structure.sections)))
  /\ calls' = Append(calls, Call("section", req, i + 1,
                            structure.sections[i + 1].title))
  /\ inflight' = "section"
  /\ pc' = "SectionsInProgress"
  /\ UNCHANGED <<outline_kind, session, handler, req, errors, structure, i,
                 sections_content, results, final_article, section_count,
                 pre, counters, parser>>

\* lines 540-548: generate_section returns; response is None when
\* messages.create raised (lines 294-296), which st.error reports
SectionReturn(response) ==
  /\ pc = "SectionsInProgress"
  /\ inflight = "section"
  /\ inflight' = "none"
  /\ results' = Append(results, response)
  /\ sections_content' = IF KeepsBody(response)
                         THEN Append(sections_content, response)
                         ELSE sections_content
  /\ errors' = IF response = None
               THEN Append(errors, "section_failed") ELSE errors
  /\ i' = NextSection(i)
  /\ UNCHANGED <<outline_kind, session, handler, pc, req, calls, structure,
                 progress,
                 final_article, section_count, pre, counters, parser>>

\* lines 550-571: the loop is over; the article is put together
Assemble ==
  /\ pc \in {"OutlineParsed", "SectionsInProgress"}
  /\ inflight = "none"
  /\ ~LoopHasNext(i, Len(structure.sections))
  /\ progress' = Append(progress, 95)
  /\ final_article' = Article(structure.intro, selected_title,
                              sections_content, req.keyword,
                              req.target_audience)
  /\ pc' = "Assembled"
  /\ UNCHANGED <<outline_kind, session, handler, req, errors, calls, inflight,
                 structure,
                 i, sections_content, results, section_count, pre, counters,
                 parser>>

\* lines 573-578: the article and the completion flag go to session state
Finish ==
  /\ pc = "Assembled"
  /\ progress' = Append(progress, 100)
  /\ generated_article' = final_article
  /\ generation_completed' = TRUE
  /\ section_count' = Len(sections_content)
  /\ pc' = "Done"
  /\ UNCHANGED <<outline_kind, generated_titles, selected_title,
                 title_selection, handler,
                 req, errors, calls, inflight, structure, i,
                 sections_content, results, final_article, pre, counters,
                 parser>>

(***************************************************************************)
(* Specification of the two handlers                                       *)
(***************************************************************************)
Requests ==
  [keyword : Keywords, genre : Genres, target_audience : Audiences,
   api_key : BOOLEAN]

Next ==
  \/ \E r \in Requests : ClickTitles(r)
  \/ \E idx \in 0..(NumTitleSlots - 1) : SelectTitle(idx)
  \/ \E r \in Requests : ClickGenerate(r)
  \/ \E resp \in RunOutlines : OutlineReturn(resp)
  \/ IssueSection
  \/ \E resp \in SectionResponses(i + 1) : SectionReturn(resp)
  \/ Assemble
  \/ Finish

Spec == Init /\ [][Next]_vars

(***************************************************************************)
(* Properties of the article run and the title handler                     *)
(***************************************************************************)
\* a step of the article handler after the click
RunStep ==
  \/ \E resp \in RunOutlines : OutlineReturn(resp)
  \/ IssueSection
  \/ \E resp \in SectionResponses(i + 1) : SectionReturn(resp)
  \/ Assemble
  \/ Finish

\* the request of the article handler misses a required field
RequestIncomplete ==
  \/ req.keyword = <<>>
  \/ Len(Strip(req.keyword)) < 2
  \/ req.genre = ""
  \/ req.target_audience = ""

\* C1: an article request whose keyword is missing or shorter than 2
\* characters after trimming, or whose genre or audience is empty, leaves
\* the run in Idle with a non-empty error list (with an API key: the
\* validation errors, one per failing field) and no generation call.
C1_InvalidRequestStaysIdle ==
  (handler = "article" /\ RequestIncomplete) =>
    /\ pc = "Idle"
    /\ inflight = "none"
    /\ calls = <<>>
    /\ errors # <<>>
    /\ req.api_key =>
         /\ \A k \in DOMAIN errors : errors[k] \in {"keyword", "genre", "audience"}
         /\ (\E k \in DOMAIN errors : errors[k] = "genre") <=> req.genre = ""
         /\ (\E k \in DOMAIN errors : errors[k] = "audience")
              <=> req.target_audience = ""
         /\ (\E k \in DOMAIN errors : errors[k] = "keyword")
              <=> (req.keyword = <<>> \/ Len(Strip(req.keyword)) < 2)

\* an article request with a good keyword and audience and no genre has
\* been refused with the genre error alone
C1_Witness ==
  /\ handler = "article"
  /\ req.api_key
  /\ req.keyword = <<"k", "w">>
  /\ req.genre = ""
  /\ req.target_audience # ""
  /\ pc = "Idle"
  /\ errors = <<"genre">>

\* C2 as stated: every generation call of any stage (title, outline,
\* section) is issued for a request whose keyword, genre and audience are
\* all non-empty.
C2_AllFieldsBeforeAnyCall ==
  \A k \in DOMAIN calls :
    /\ calls[k].keyword # <<>>
    /\ calls[k].genre # ""
    /\ calls[k].target_audience # ""

\* C2 as amended: every outline or section call is issued for a request
\* whose keyword (2 or more characters after trimming), genre and audience
\* are all present; a title call is issued for a request whose keyword has
\* 2 or more characters after trimming, whatever its genre and audience.
C2_FieldsBeforeCallByStage ==
  \A k \in DOMAIN calls :
    /\ calls[k].keyword # <<>>
    /\ Len(Strip(calls[k].keyword)) >= 2
    /\ calls[k].stage \in {"outline", "section"} =>
         calls[k].genre # "" /\ calls[k].target_audience # ""

\* a title call has been issued for a request with no genre and no audience
C2_Witness ==
  \E k \in DOMAIN calls :
    /\ calls[k].stage = "title"
    /\ calls[k].genre = ""
    /\ calls[k].target_audience = ""

\* the sections whose call returned a non-empty text, in outline order
RECURSIVE SucceededFrom(_)
SucceededFrom(k) ==
  IF k > Len(results) THEN <<>>
  ELSE (IF results[k] # None /\ results[k] # <<>> THEN <<k>> ELSE <<>>)
       \o SucceededFrom(k + 1)

\* the sections whose bodies article holds, in the order it holds them (a
\* body of section k is the token "p" followed by the numeral k)
RECURSIVE BodiesIn(_, _)
BodiesIn(article, k) ==
  IF k >= Len(article) THEN <<>>
  ELSE (IF article[k] = "p"
        THEN <<CHOOSE n \in DOMAIN Digits : Digits[n] = article[k + 1]>>
        ELSE <<>>) \o BodiesIn(article, k + 1)

\* C3: once the outline call has succeeded and parsed to N sections, the
\* run is never Failed whatever section calls fail or return nothing; it
\* can always take its next step until it is Done; the article holds
\* exactly the bodies of the sections whose calls succeeded, in outline
\* order, and the reported count is the number of those calls.
C3_SectionFailuresAreOmitted ==
  (handler = "article" /\ outline_kind = "text") =>
    /\ pc \in {"OutlineParsed", "SectionsInProgress", "Assembled", "Done"}
    /\ pc # "Done" => ENABLED RunStep
    /\ pc \in {"Assembled", "Done"} =>
         /\ Len(results) = Len(structure.sections)
         /\ BodiesIn(final_article, 1) = SucceededFrom(1)
    /\ pc = "Done" =>
         /\ generated_article = final_article
         /\ generation_completed
         /\ section_count = Len(SucceededFrom(1))

\* scenario B: three sections, the call of the second failed, the run is
\* Done with the bodies of sections 1 and 3 and the count 2
C3_Witness ==
  /\ pc = "Done"
  /\ Len(results) = 3
  /\ results[1] = <<"p", "1">>
  /\ results[2] = None
  /\ results[3] = <<"p", "3">>
  /\ BodiesIn(generated_article, 1) = <<1, 3>>
  /\ section_count = 2

\* C4: when the outline call fails or returns the empty text the run is
\* Failed, no section call is issued and no article is produced: the
\* session's article and completion flag are as they were when the run
\* began.
C4_OutlineFailureLeavesSession ==
  (handler = "article" /\ outline_kind \in {"error", "empty"}) =>
    /\ pc = "Failed"
    /\ inflight = "none"
    /\ \A k \in DOMAIN calls : calls[k].stage # "section"
    /\ results = <<>>
    /\ final_article = <<>>
    /\ generated_article = pre.article
    /\ generation_completed = pre.completed

\* a run whose outline call returned the empty text has failed after an
\* earlier run had stored an article, which is still there
C4_Witness ==
  /\ handler = "article"
  /\ outline_kind = "empty"
  /\ pc = "Failed"
  /\ pre.completed
  /\ pre.article # <<>>
  /\ generated_article = pre.article

\* C5 as stated: the article starts with the heading of the selected title
\* when a title is selected, before the intro, the bodies and the closing.
C5_TitleHeadingFirst ==
  (pc \in {"Assembled", "Done"} /\ selected_title # <<>>) =>
    StartsWith(final_article, <<"#", SP>> \o selected_title)

\* the parts of the article in the order of lines 555-571
LeadingIntroBlock == <<"M", SP>> \o structure.intro \o <<NL, NL>>
BodyLabel == <<"B", NL, NL>>
TitleHeading ==
  IF selected_title = <<>> THEN <<>>
  ELSE <<"#", SP>> \o selected_title \o <<NL, NL>>
InlineIntro == structure.intro \o <<NL, NL>>
RECURSIVE SectionBodies(_)
SectionBodies(k) ==
  IF k > Len(sections_content) THEN <<>>
  ELSE sections_content[k] \o <<NL, NL>> \o SectionBodies(k + 1)
Closing ==
  <<"#", "#", SP, "S", NL, NL, "C1">> \o req.keyword
  \o <<"C2", "C3", req.target_audience, "C4">>

\* C5 as amended: the article is, in this order: the leading intro block
\* (the intro label and the intro), the body label, the heading of the
\* selected title exactly when a title is selected, the intro again, every
\* accumulated section body in outline order, and the closing section with
\* the keyword and the audience verbatim.
C5_ArticleOrder ==
  pc \in {"Assembled", "Done"} =>
    final_article = LeadingIntroBlock \o BodyLabel \o TitleHeading
                    \o InlineIntro \o SectionBodies(1) \o Closing

\* a run is Done with a selected title, a parsed intro and two bodies
C5_Witness ==
  /\ pc = "Done"
  /\ selected_title # <<>>
  /\ structure.intro # <<>>
  /\ Len(sections_content) = 2
  /\ generated_article = final_article

\* C10: in a run whose outline parsed to N sections the calls are one
\* outline call and then one section call per section in outline order,
\* one at a time: a call is issued only when every earlier one has
\* returned; no section call without a successful outline call, none
\* repeated; with N = 0 there is no section call and the run goes on to
\* Done with no body and the count 0.
C10_CallsInOrderOneAtATime ==
  handler = "article" =>
    /\ \A k \in DOMAIN calls :
         IF k = 1 THEN calls[k].stage = "outline"
         ELSE /\ calls[k].stage = "section"
              /\ calls[k].index = k - 1
              /\ outline_kind = "text"
              /\ k - 1 <= Len(structure.sections)
              /\ calls[k].title = structure.sections[k - 1].title
    /\ inflight = "outline" => Len(calls) = 1 /\ outline_kind = "none"
    /\ inflight = "section" => Len(results) = Len(calls) - 2
    /\ (inflight = "none" /\ calls # <<>>) => Len(results) = Len(calls) - 1
    /\ pc \in {"Assembled", "Done"} =>
         Len(calls) = 1 + Len(structure.sections)
    /\ (outline_kind = "text" /\ Len(structure.sections) = 0) =>
         /\ Len(calls) = 1
         /\ pc \in {"OutlineParsed", "Assembled", "Done"}
         /\ pc = "OutlineParsed" => ENABLED Assemble
         /\ pc = "Done" =>
              section_count = 0 /\ BodiesIn(generated_article, 1) = <<>>

\* the third section call of a run is in flight after the outline call and
\* the first two section calls have returned
C10_Witness ==
  /\ handler = "article"
  /\ pc = "SectionsInProgress"
  /\ inflight = "section"
  /\ Len(calls) = 4
  /\ Len(results) = 2

(***************************************************************************)
(* The parsers on their own: the text is drawn from a bounded set and the  *)
(* one action applies the parser to it.                                    *)
(***************************************************************************)
MaxTitleLines == 5
MaxOutlineLines == 4
MaxIntroLines == 3

\* lines of a title response: items 1 (twice, with different titles), 2
\* (no space after the dot, a trailing space), 3, 4, 5 and the
\* recommendation line
TitleLines ==
  {<<"1", ".", SP, "a">>, <<"1", ".", SP, "b">>, <<"2", ".", "c", SP>>,
   <<"3", ".", SP, "d">>, <<"4", ".", SP, "e">>, <<"5", ".", SP, "f">>,
   <<"R", SP, "a">>}
TitleTexts == {Join(ls) : ls \in SeqsUpTo(TitleLines, MaxTitleLines)}

\* lines of an outline: two section headings (one padded with spaces), the
\* summary heading, a heading that starts like the summary heading, two
\* subsection headings, the intro line, a line of plain text
OutlineLines ==
  {<<"#", "#", SP, "a">>, <<SP, "#", "#", SP, "b", SP>>,
   <<"#", "#", SP, "S">>, <<"#", "#", SP, "S", "a">>,
   <<"#", "#", "#", SP, "x">>, <<"#", "#", "#", SP, "y">>,
   <<"M", SP, "i">>, <<"t">>}
OutlineTexts == {Join(ls) : ls \in SeqsUpTo(OutlineLines, MaxOutlineLines)}

\* lines of a text given to extract_title_and_meta: the intro line, the
\* bare marker, the marker and a space, the marker and padded text, plain
\* text, an empty line
IntroLines ==
  {<<"M", SP, "i">>, <<"M">>, <<"M", SP>>, <<"M", SP, SP, "j", SP>>,
   <<"t">>, <<>>}

\* the articles the run assembles from an empty or a parsed intro, with
\* and without a title, with and without a section body
SampleArticles ==
  {Article(intro, title, contents, <<"k", "w">>, "beginner") :
     intro \in {<<>>, <<"i">>}, title \in {<<>>, <<"t">>},
     contents \in {<<>>, << <<"p", "1">> >>}}
IntroTexts ==
  {<<>>} \cup {Join(ls) : ls \in SeqsUpTo(IntroLines, MaxIntroLines)}
  \cup SampleArticles

ParseTitles ==
  /\ parsed = NotParsed
  /\ parsed' = [fn |-> "titles", out |-> extract_titles_only(text)]
  /\ UNCHANGED <<session, run, counters, text>>

ParseOutline ==
  /\ parsed = NotParsed
  /\ parsed' = [fn |-> "outline", out |-> extract_outline_structure(text)]
  /\ UNCHANGED <<session, run, counters, text>>

ParseIntro ==
  /\ parsed = NotParsed
  /\ parsed' = [fn |-> "intro", out |-> extract_title_and_meta(text)]
  /\ UNCHANGED <<session, run, counters, text>>

TitlesInit == InitHandlers /\ text \in TitleTexts /\ parsed = NotParsed
TitlesNext == ParseTitles
TitlesSpec == TitlesInit /\ [][TitlesNext]_vars

OutlineInit == InitHandlers /\ text \in OutlineTexts /\ parsed = NotParsed
OutlineNext == ParseOutline
OutlineSpec == OutlineInit /\ [][OutlineNext]_vars

IntroInit == InitHandlers /\ text \in IntroTexts /\ parsed = NotParsed
IntroNext == ParseIntro
IntroSpec == IntroInit /\ [][IntroNext]_vars

(***************************************************************************)
(* Properties of the parsers                                               *)
(***************************************************************************)
\* the places in lines (a split text) of the items numbered n
ItemLines(lines, n) ==
  {k \in DOMAIN lines : StartsWith(lines[k], <<Digits[n], ".">>)}

\* the numerals that have an item in lines
ItemNumerals(lines) == {n \in DOMAIN Digits : ItemLines(lines, n) # {}}

\* the trimmed title of the first item n of lines
ItemTitle(lines, n) ==
  LET line == lines[SetMin(ItemLines(lines, n))]
  IN Strip(SubSeq(line, 3, Len(line)))

\* the titles of the items numbered n .. 5, in the order of numerals
RECURSIVE ItemTitlesFrom(_, _)
ItemTitlesFrom(lines, n) ==
  IF n > 5 THEN <<>>
  ELSE (IF ItemLines(lines, n) # {} THEN <<ItemTitle(lines, n)>> ELSE <<>>)
       \o ItemTitlesFrom(lines, n + 1)

IsH2Line(line) == StartsWith(Strip(line), <<"#", "#", SP>>)
IsH3Line(line) == StartsWith(Strip(line), <<"#", "#", "#", SP>>)
IsClosingLine(line) == StartsWith(Strip(line), <<"#", "#", SP, "S">>)

\* the places in t of the second-level headings that are not the closing
\* heading, in text order
SectionHeadingPlaces(t) ==
  LET lines == Split(t)
      RECURSIVE From(_)
      From(k) == IF k > Len(lines) THEN <<>>
                 ELSE (IF IsH2Line(lines[k]) /\ ~IsClosingLine(lines[k])
                       THEN <<k>> ELSE <<>>) \o From(k + 1)
  IN From(1)

\* the third-level headings of t after line h and before the next
\* second-level heading line, the closing heading included
SubsectionsUpToNextH2(t, h) ==
  LET lines == Split(t)
      later == {k \in (h + 1)..Len(lines) : IsH2Line(lines[k])}
      stop == IF later = {} THEN Len(lines) + 1 ELSE SetMin(later)
      RECURSIVE From(_)
      From(k) == IF k >= stop THEN <<>>
                 ELSE (IF IsH3Line(lines[k])
                       THEN <<Remove(Strip(lines[k]), <<"#", "#", "#", SP>>)>>
                       ELSE <<>>) \o From(k + 1)
  IN From(h + 1)

\* C7: each Section of extract_outline_structure has as its subsections
\* exactly the third-level headings, in order, after its own heading and
\* before the next second-level heading of the text, the closing heading
\* being such a heading; a third-level heading before any section heading
\* belongs to no section.
C7_SubsectionsEndAtNextH2 ==
  parsed.fn = "outline" =>
    LET places == SectionHeadingPlaces(text)
    IN /\ Len(parsed.out.sections) = Len(places)
       /\ \A k \in DOMAIN places :
            parsed.out.sections[k].subsections
              = SubsectionsUpToNextH2(text, places[k])

\* C8: the sections of extract_outline_structure are, in text order, the
\* second-level headings that are not the closing/summary heading, one
\* Section each and nothing else; the closing heading is never a Section
\* title.
C8_SectionsAreTheOtherH2 ==
  parsed.fn = "outline" =>
    LET places == SectionHeadingPlaces(text)
        lines == Split(text)
    IN /\ Len(parsed.out.sections) = Len(places)
       /\ \A k \in DOMAIN places :
            parsed.out.sections[k].title
              = Remove(Strip(lines[places[k]]), <<"#", "#", SP>>)
       /\ \A k \in DOMAIN parsed.out.sections :
            ~StartsWith(parsed.out.sections[k].title, <<"S">>)

\* a text with a closing heading between two section headings has been
\* parsed to 2 sections
C8_Witness ==
  /\ parsed.fn = "outline"
  /\ Len(parsed.out.sections) = 2
  /\ \E k \in DOMAIN Split(text) :
       /\ IsClosingLine(Split(text)[k])
       /\ SectionHeadingPlaces(text)[1] < k
       /\ k < SectionHeadingPlaces(text)[2]

\* what follows the intro marker at place m of t on the marker's own line
AfterMarker(t, m) ==
  LET nls == {k \in (m + 1)..Len(t) : t[k] = NL}
      stop == IF nls = {} THEN Len(t) + 1 ELSE SetMin(nls)
  IN Strip(SubSeq(t, m + 1, stop - 1))

\* C9: extract_title_and_meta returns the sentinel when the text has no
\* intro marker; when a marker is there, what it returns is the trimmed
\* text that follows the marker on the same line (of the first marker, when
\* text follows it), never text of a later line.
C9_IntroFromTheMarkerLine ==
  parsed.fn = "intro" =>
    LET markers == {k \in 1..Len(text) : text[k] = "M"}
    IN IF markers = {} THEN parsed.out.intro = IntroNotFound
       ELSE /\ parsed.out.intro
                 \in {IntroNotFound}
                     \cup {AfterMarker(text, m) : m \in markers}
            /\ AfterMarker(text, SetMin(markers)) # <<>> =>
                 parsed.out.intro = AfterMarker(text, SetMin(markers))

(***************************************************************************)
(* Properties of the progress bar and of the selected title                *)
(***************************************************************************)
\* the values a run with N sections gives the progress bar until Done
ProgressUntilDone(N) ==
  <<0, 25, 35>> \o [k \in 1..N |-> 35 + ((50 * k) \div N)] \o <<95, 100>>

\* how many values the run has given the progress bar where it stands
ProgressSoFar ==
  LET N == Len(structure.sections)
  IN CASE pc = "Idle" -> 0
       [] pc \in {"OutlineRequested", "Failed"} -> 2
       [] pc = "OutlineParsed" -> 3
       [] pc = "SectionsInProgress" ->
            3 + i + (IF inflight = "section" THEN 1 ELSE 0)
       [] pc = "Assembled" -> 3 + N + 1
       [] pc = "Done" -> 3 + N + 2

\* C11: within one run the values given to the progress bar are integers
\* of 0..100 that never decrease: 0 when the bar is made, 25 when the
\* outline is requested, 35 when it is parsed, floor(35 + 50*k/N) when
\* section k of N is begun (k = 1..N, in order), 95 at assembly and 100 at
\* Done; 100 is given only by a run that reaches Done, whichever section
\* calls failed.
C11_ProgressNeverDecreases ==
  /\ \A k \in DOMAIN progress : progress[k] \in 0..100
  /\ \A k \in 1..(Len(progress) - 1) : progress[k] <= progress[k + 1]
  /\ Len(progress) = ProgressSoFar
  /\ progress =
       SubSeq(ProgressUntilDone(Len(structure.sections)), 1, ProgressSoFar)
  /\ (\E k \in DOMAIN progress : progress[k] = 100) <=> pc = "Done"

\* a run of three sections, the second of which failed, has reached Done
C11_Witness ==
  /\ pc = "Done"
  /\ Len(structure.sections) = 3
  /\ results[2] = None
  /\ results[3] # None
  /\ progress = <<0, 25, 35, 51, 68, 85, 95, 100>>

\* the candidates of the TitleSet stored last (none before the first one)
StoredCandidates ==
  {generated_titles.title_candidates[k] :
     k \in DOMAIN generated_titles.title_candidates}

\* C12: after any title generations (failing, with candidates, or with no
\* parsable candidate) and selections, the title that an article run puts
\* into the heading of the Article is empty or a candidate of the TitleSet
\* stored last; a title of a superseded TitleSet is never used.
C12_HeadingFromStoredTitles ==
  pc \in {"Assembled", "Done"} =>
    \E title \in {<<>>} \cup StoredCandidates :
      final_article = Article(structure.intro, title, sections_content,
                              req.keyword, req.target_audience)

=============================================================================
